---- MODULE Spec2Model ----
(***************************************************************************)
(* A model of the Harvest API client: the transport wrapper (NewRequest,   *)
(* Do), the error classifier (CheckResponse, ParseRate) and the rendering  *)
(* of its errors, the single calls (Get, Create, Update, Delete, ListPage, *)
(* ListPageFromURL), the eager "fetch all" listings (the generic List, the *)
(* page-number service listings and the cursor service listings), the     *)
(* lazy Iterator, and the cancellation of the caller's context.            *)
(*                                                                         *)
(* Representation.  A Go pointer is a sequence of length at most one:      *)
(* <<>> is nil and <<v>> points to v.  A URL string is the record of its   *)
(* parts [host, abs, segs, query]: host "" for a URL without scheme and    *)
(* host, abs for a path that starts with "/", segs the path segments and   *)
(* query the sequence of <<key, value>> pairs of the raw query (<<>> for   *)
(* no query).  The empty string is EmptyURL.  An error is a record with a  *)
(* type field, NoError for the nil error.  A nil slice and an empty slice  *)
(* are both <<>>.                                                          *)
(***************************************************************************)
EXTENDS Integers, Sequences, FiniteSets, TLC

\* Bounds of the model.
MaxFetch == 3
MaxItems == 2
MaxPageNo == 2
MaxPageIn == 1
MaxPerPage == 1
MaxChain == 3
MaxShared == 2
MinStatus == 100
MaxStatus == 599

\* Program constants.
DefaultPerPage == 2000
IteratorPerPage == 100
StatusNoContent == 204
StatusTooManyRequests == 429
StatusUnauthorized == 401
StatusForbidden == 403
StatusNotFound == 404
StatusUnprocessableEntity == 422

\* The largest int, written as that of a 32-bit build (2^63 - 1 on a 64-bit
\* build).
MaxInt == 2147483647

defaultBaseURL == [host |-> "api.harvestapp.com", abs |-> TRUE,
                   segs |-> <<"v2">>, query |-> <<>>]

EmptyURL == [host |-> "", abs |-> FALSE, segs |-> <<>>, query |-> <<>>]

NoError == [type |-> "nil"]

----------------------------------------------------------------------------
(* Data served by the remote service.                                      *)

\* The next-link URLs a page may carry: with and without a raw query.
NextLinks ==
    { [host |-> "api.harvestapp.com", abs |-> TRUE,
       segs |-> <<"v2", "users">>, query |-> q] :
          q \in { <<>>, << <<"cursor", "c1">> >> } }

\* links: the service sends the object on every page, with next empty on
\* the last page and a URL otherwise.
LinkValues == { << [Next |-> u] >> : u \in {EmptyURL} \cup NextLinks }

\* next_page: null or a positive page number.
NextPageValues == { <<>> } \cup { <<n>> : n \in 1..MaxPageNo }

\* The items of the page served in answer to request number f.
WireItems(f, n) == [i \in 1..n |-> <<f, i>>]

\* The zero value of a single resource.
ZeroResource == [id |-> 0, name |-> ""]

\* A body is the record of what it holds: raw tells a JSON document
\* ("json") from an empty body ("empty"), bytes that are not JSON
\* ("garbage") and a body whose read fails ("unreadable"); valid is
\* raw = "json".  The remaining fields are the keys of the document, a key
\* the document lacks having the zero value of its type.
EmptyBody ==
    [valid |-> FALSE, raw |-> "empty", items |-> <<>>, next_page |-> <<>>,
     links |-> <<>>, error |-> "", error_description |-> <<>>,
     resource |-> ZeroResource]

\* The JSON envelopes that answer request number f.
PageBodies(f) ==
    { [valid |-> TRUE, raw |-> "json", items |-> WireItems(f, n),
       next_page |-> np, links |-> l, error |-> "",
       error_description |-> <<>>, resource |-> ZeroResource] :
          n \in 0..MaxItems, np \in NextPageValues, l \in LinkValues }

\* A header value is a string, modelled by what a decimal parser makes of
\* it: "empty" (the header is missing or empty), "int" (a decimal integer,
\* val), "text" (not a number) and "huge" (decimal digits that exceed every
\* integer width).
EmptyString == [kind |-> "empty", val |-> 0]

\* A response without rate-limit headers.
NoHeaders ==
    [limit |-> EmptyString, remaining |-> EmptyString, reset |-> EmptyString]

\* Statuses the transport delivers in a traversal besides 200 and 204.
FailureStatuses == {StatusNotFound, StatusTooManyRequests}

\* What the HTTP round trip of request number f can produce: a transport
\* failure, a page, a 200 whose body is not JSON, a 204, a failure status.
Responses(f) ==
    { [terr |-> TRUE, status |-> 0, body |-> EmptyBody, header |-> NoHeaders] }
    \cup { [terr |-> FALSE, status |-> 200, body |-> b, header |-> NoHeaders] :
              b \in PageBodies(f) }
    \cup { [terr |-> FALSE, status |-> 200, body |-> EmptyBody,
            header |-> NoHeaders] }
    \cup { [terr |-> FALSE, status |-> s, body |-> EmptyBody,
            header |-> NoHeaders] :
              s \in {StatusNoContent} \cup FailureStatuses }

\* The http.Response the HTTP client hands back for the request req when
\* the round trip produced r.
Response(req, r) ==
    [status |-> r.status, body |-> r.body, header |-> r.header,
     request |-> req]

----------------------------------------------------------------------------
(* Rate-limit headers.                                                     *)

\* The zero time.Time and the time sec seconds after the Unix epoch.
ZeroTime == [isZero |-> TRUE, sec |-> 0]

Unix(sec) == [isZero |-> FALSE, sec |-> sec]

\* strconv.Atoi: the value and whether an error is returned.  Digits out of
\* the range of int give the largest int together with a range error.
Atoi(s) ==
    CASE s.kind = "int" -> [v |-> s.val, err |-> FALSE]
      [] s.kind = "huge" -> [v |-> MaxInt, err |-> TRUE]
      [] OTHER -> [v |-> 0, err |-> TRUE]

\* strconv.ParseInt(s, 10, 64): as Atoi (the largest int64 is written
\* MaxInt here).
ParseInt(s) ==
    CASE s.kind = "int" -> [v |-> s.val, err |-> FALSE]
      [] s.kind = "huge" -> [v |-> MaxInt, err |-> TRUE]
      [] OTHER -> [v |-> 0, err |-> TRUE]

\* ParseRate: the error of Atoi is discarded and its value stored; the
\* reset time is stored only when ParseInt returns no error.
ParseRate(r) ==
    [Limit |-> IF r.header.limit /= EmptyString
               THEN Atoi(r.header.limit).v
               ELSE 0,
     Remaining |-> IF r.header.remaining /= EmptyString
                   THEN Atoi(r.header.remaining).v
                   ELSE 0,
     Reset |-> IF r.header.reset /= EmptyString /\ ~ParseInt(r.header.reset).err
               THEN Unix(ParseInt(r.header.reset).v)
               ELSE ZeroTime]

----------------------------------------------------------------------------
(* Error classifier.                                                       *)

MsgRateLimit == "API rate limit exceeded"
MsgUnauthorized == "Authentication failed. Check your access token and account ID."
MsgForbidden == "Access forbidden. You don't have permission to access this resource."
MsgNotFound == "Resource not found."
MsgUnprocessable == "Invalid request. Check your input parameters."

MsgUnexpected(status) == "Unexpected status code: " \o ToString(status)

\* io.ReadAll(r.Body): the bytes read and whether the read failed.
ReadAll(b) ==
    IF b.raw = "unreadable"
    THEN [data |-> <<>>, err |-> TRUE]
    ELSE [data |-> <<b>>, err |-> FALSE]

\* json.Unmarshal(data, errorResponse): fills Message and Errors from the
\* keys error and error_description; on bytes that are not JSON it fails
\* and leaves the target untouched.  The caller discards its error.
UnmarshalError(b, e) ==
    IF b.valid
    THEN [e EXCEPT !.Message = b.error, !.Errors = b.error_description]
    ELSE e

\* The ErrorResponse after the body has been read and decoded.
ReadErrorResponse(r) ==
    LET e == [type |-> "ErrorResponse", Response |-> r, Message |-> "",
              Errors |-> <<>>]
        rd == ReadAll(r.body)
    IN  IF ~rd.err /\ rd.data /= <<>> THEN UnmarshalError(rd.data[1], e) ELSE e

\* As StatusMessage, but 404 keeps a message the body supplied.
StatusMessage_keep404(status, message) ==
    CASE status = StatusUnauthorized -> MsgUnauthorized
      [] status = StatusForbidden -> MsgForbidden
      [] status = StatusNotFound -> IF message = "" THEN MsgNotFound ELSE message
      [] status = StatusUnprocessableEntity ->
            IF message = "" THEN MsgUnprocessable ELSE message
      [] OTHER -> IF message = "" THEN MsgUnexpected(status) ELSE message

\* As StatusMessage, but without the generic message of the default case.
StatusMessage_noDefault(status, message) ==
    CASE status = StatusUnauthorized -> MsgUnauthorized
      [] status = StatusForbidden -> MsgForbidden
      [] status = StatusNotFound -> MsgNotFound
      [] status = StatusUnprocessableEntity ->
            IF message = "" THEN MsgUnprocessable ELSE message
      [] OTHER -> message

\* The switch of CheckResponse: the message of the ErrorResponse for the
\* status, given the message the body supplied.
StatusMessage(status, message) ==
    CASE status = StatusUnauthorized -> MsgUnauthorized
      [] status = StatusForbidden -> MsgForbidden
      [] status = StatusNotFound -> MsgNotFound
      [] status = StatusUnprocessableEntity ->
            IF message = "" THEN MsgUnprocessable ELSE message
      [] OTHER -> IF message = "" THEN MsgUnexpected(status) ELSE message

CheckResponse_noUpper(r) ==
    IF 200 <= r.status
    THEN NoError
    ELSE IF r.status = StatusTooManyRequests
         THEN [type |-> "RateLimitError", Rate |-> ParseRate(r),
               Response |-> r, Message |-> MsgRateLimit]
         ELSE LET e == ReadErrorResponse(r)
              IN  [e EXCEPT !.Message = StatusMessage(r.status, e.Message)]

CheckResponse(r) ==
    IF 200 <= r.status /\ r.status <= 299
    THEN NoError
    ELSE IF r.status = StatusTooManyRequests
         THEN [type |-> "RateLimitError", Rate |-> ParseRate(r),
               Response |-> r, Message |-> MsgRateLimit]
         ELSE LET e == ReadErrorResponse(r)
              IN  [e EXCEPT !.Message = StatusMessage(r.status, e.Message)]

\* Two decimal digits.
Pad2(n) == IF n < 10 THEN "0" \o ToString(n) ELSE ToString(n)

\* Time.Format("15:04:05"), the zone taken to be UTC.
FormatClock(t) ==
    LET s == IF t.isZero THEN 0 ELSE t.sec % 86400
    IN  Pad2(s \div 3600) \o ":" \o Pad2((s % 3600) \div 60) \o ":"
        \o Pad2(s % 60)

\* The rendered form of an error is the record of the parts that Sprintf
\* writes, in the order of the format: method, url, status, message, then
\* the lines of the sub-errors or the rate.

\* As ErrorResponseError, but only the first sub-error is written.
ErrorResponseError_firstOnly(e) ==
    [method |-> e.Response.request.method, url |-> e.Response.request.url,
     status |-> e.Response.status, message |-> e.Message,
     lines |-> [i \in 1..(IF Len(e.Errors) > 0 THEN 1 ELSE 0) |->
                   e.Errors[i].Field \o ": " \o e.Errors[i].Message],
     rate |-> <<>>]

\* (*ErrorResponse).Error.
ErrorResponseError(e) ==
    [method |-> e.Response.request.method, url |-> e.Response.request.url,
     status |-> e.Response.status, message |-> e.Message,
     lines |-> [i \in 1..Len(e.Errors) |->
                   e.Errors[i].Field \o ": " \o e.Errors[i].Message],
     rate |-> <<>>]

\* (*RateLimitError).Error.
RateLimitErrorError(e) ==
    [method |-> e.Response.request.method, url |-> e.Response.request.url,
     status |-> e.Response.status, message |-> e.Message,
     lines |-> <<>>,
     rate |-> << [Remaining |-> e.Rate.Remaining, Limit |-> e.Rate.Limit,
                  Reset |-> FormatClock(e.Rate.Reset)] >>]

\* The Error method of the error e.
Error(e) ==
    IF e.type = "RateLimitError"
    THEN RateLimitErrorError(e)
    ELSE ErrorResponseError(e)

----------------------------------------------------------------------------
(* Pagination helpers.                                                     *)

ListOptions == [Page : 0..MaxPageIn, PerPage : 0..MaxPerPage]

ZeroOptions == [Page |-> 0, PerPage |-> 0]

\* The zero value of Paginated[T].
ZeroPaginated == [Items |-> <<>>, NextPage |-> <<>>, Links |-> <<>>]

HasNextPage(p) == p.NextPage /= <<>>

GetNextPageURL(p) == IF p.Links /= <<>> THEN p.Links[1].Next ELSE EmptyURL

\* json.Decode into Paginated[T]: Items carries the tag json:"-" and is
\* never filled from the body.
DecodePaginated(b) ==
    [Items |-> <<>>, NextPage |-> b.next_page, Links |-> b.links]

\* json.Decode into a resource list (TaskList, UserList, ...): the items
\* land in the field named after the resource, the embedded Paginated gets
\* the pagination fields and its Items stay empty.
DecodeResourceList(b) ==
    [Resources |-> b.items, Items |-> <<>>,
     NextPage |-> b.next_page, Links |-> b.links]

\* json.Decode into a single resource.
DecodeResource(b) == b.resource

----------------------------------------------------------------------------
(* Transport wrapper.                                                      *)

\* The relative path a listing is called with.
ListPath == [host |-> "", abs |-> FALSE, segs |-> <<"users">>, query |-> <<>>]

\* query.Values(opts).Encode(): keys sorted, zero fields omitted (omitempty).
EncodeValues(o) ==
    (IF o.Page /= 0 THEN << <<"page", o.Page>> >> ELSE <<>>)
    \o (IF o.PerPage /= 0 THEN << <<"per_page", o.PerPage>> >> ELSE <<>>)

addOptions(s, o) == [s EXCEPT !.query = EncodeValues(o)]

\* url.Parse of a reference written without a scheme: one that begins with
\* "//" (a rooted path whose first segment is empty) is a network-path
\* reference, its second segment being the host and the rest the path;
\* every other reference is read as it is written.
Parse(ref) ==
    IF ref.host = "" /\ ref.abs /\ Len(ref.segs) >= 2 /\ ref.segs[1] = ""
    THEN [host |-> ref.segs[2], abs |-> TRUE,
          segs |-> SubSeq(ref.segs, 3, Len(ref.segs)), query |-> ref.query]
    ELSE ref

\* base.ResolveReference(ref): a reference with a host replaces the base, a
\* rooted path keeps the base's host, a relative path is appended to the
\* base's directory.
ResolveReference(base, ref) ==
    IF ref.host /= ""
    THEN ref
    ELSE IF ref.abs
         THEN [host |-> base.host, abs |-> TRUE, segs |-> ref.segs, query |-> ref.query]
         ELSE [host |-> base.host, abs |-> TRUE,
               segs |-> base.segs \o ref.segs, query |-> ref.query]

\* As RequestHeader, but Content-Type is set on every request.
RequestHeader_contentTypeAlways(c, body) ==
    [ContentType |-> "application/json",
     Authorization |-> "Bearer " \o c.accessToken,
     HarvestAccountId |-> c.accountID,
     UserAgent |-> c.userAgent,
     Accept |-> "application/json"]

\* The headers NewRequest sets: Content-Type only for a non-nil body, then
\* the four required headers from the client's fields ("" is an unset
\* header).
RequestHeader(c, body) ==
    [ContentType |-> IF body /= <<>> THEN "application/json" ELSE "",
     Authorization |-> "Bearer " \o c.accessToken,
     HarvestAccountId |-> c.accountID,
     UserAgent |-> c.userAgent,
     Accept |-> "application/json"]

\* As NewRequest, but the request is built without the caller's context.
NewRequest_noContext(c, method, urlStr, body) ==
    [method |-> method, url |-> ResolveReference(c.baseURL, Parse(urlStr)),
     body |-> body, header |-> RequestHeader(c, body), withContext |-> FALSE]

NewRequest(c, method, urlStr, body) ==
    [method |-> method, url |-> ResolveReference(c.baseURL, Parse(urlStr)),
     body |-> body, header |-> RequestHeader(c, body), withContext |-> TRUE]

\* c.baseURL.Parse(urlStr) fails on a string that is no URL reference; such
\* a string is written with the segment "%zz", an invalid escape.
ParseFails(urlStr) == \E i \in 1..Len(urlStr.segs) : urlStr.segs[i] = "%zz"

\* The error NewRequest returns instead of a request: the URL does not
\* parse, or the body cannot be encoded as JSON.
NewRequestError(urlStr, body) ==
    IF ParseFails(urlStr)
    THEN [type |-> "url"]
    ELSE IF body /= <<>> /\ ~body[1].encodable
         THEN [type |-> "encode"]
         ELSE NoError

\* c.httpClient.Do(req) when the caller's context is in state c: the HTTP
\* client puts the request on the wire unless the context the request was
\* built with is done, in which case it fails at once.
RoundTripSends(c, req) == ~(req.withContext /\ c /= "live")

\* url.Parse(fullURL) and the reassembly of u.Path and u.RawQuery.
PathAndQuery(fullURL) ==
    [host |-> "", abs |-> fullURL.abs, segs |-> fullURL.segs, query |-> fullURL.query]

\* The zero value of a resource list (TaskList, UserList, ...).
ZeroResourceList ==
    [Resources |-> <<>>, Items |-> <<>>, NextPage |-> <<>>, Links |-> <<>>]

\* The zero value of a decode target of type t.
ZeroValue(t) ==
    CASE t = "Paginated" -> ZeroPaginated
      [] t = "ResourceList" -> ZeroResourceList
      [] OTHER -> ZeroResource

\* The pointer to a fresh variable of type t (var result T; &result).
Target(t) == [type |-> t, val |-> ZeroValue(t)]

\* The nil decode target.
NilTarget == [type |-> "nil", val |-> ZeroResource]

\* json.Decode of the body b into a value of type t.
Decode(t, b) ==
    CASE t = "Paginated" -> DecodePaginated(b)
      [] t = "ResourceList" -> DecodeResourceList(b)
      [] OTHER -> DecodeResource(b)

\* ctx.Err() of a context that is done.
ContextError(c) == [type |-> "context", Err |-> c]

\* As Do, but a decode failure is dropped.
Do_ignoreDecodeError(c, req, r, v) ==
    IF r.terr
    THEN [err |-> IF c /= "live" THEN ContextError(c) ELSE [type |-> "transport"],
          v |-> v.val]
    ELSE LET resp == Response(req, r)
         IN  IF CheckResponse(resp) /= NoError
             THEN [err |-> CheckResponse(resp), v |-> v.val]
             ELSE IF v.type /= "nil" /\ r.status /= StatusNoContent
                  THEN IF r.body.valid
                       THEN [err |-> NoError, v |-> Decode(v.type, r.body)]
                       ELSE [err |-> NoError, v |-> v.val]
                  ELSE [err |-> NoError, v |-> v.val]

\* As Do, but the body is decoded into the target before the status is
\* checked.
Do_decodeFirst(c, req, r, v) ==
    IF r.terr
    THEN [err |-> IF c /= "live" THEN ContextError(c) ELSE [type |-> "transport"],
          v |-> v.val]
    ELSE LET resp == Response(req, r)
             val == IF v.type /= "nil" /\ r.body.valid
                    THEN Decode(v.type, r.body)
                    ELSE v.val
         IN  IF CheckResponse(resp) /= NoError
             THEN [err |-> CheckResponse(resp), v |-> val]
             ELSE IF v.type /= "nil" /\ r.status /= StatusNoContent
                  THEN IF r.body.valid
                       THEN [err |-> NoError, v |-> Decode(v.type, r.body)]
                       ELSE [err |-> [type |-> "decode"], v |-> v.val]
                  ELSE [err |-> NoError, v |-> v.val]

\* As Do, but the error of the HTTP client is returned whatever the state
\* of the context.
Do_rawTransportError(c, req, r, v) ==
    IF r.terr
    THEN [err |-> [type |-> "transport"], v |-> v.val]
    ELSE LET resp == Response(req, r)
         IN  IF CheckResponse(resp) /= NoError
             THEN [err |-> CheckResponse(resp), v |-> v.val]
             ELSE IF v.type /= "nil" /\ r.status /= StatusNoContent
                  THEN IF r.body.valid
                       THEN [err |-> NoError, v |-> Decode(v.type, r.body)]
                       ELSE [err |-> [type |-> "decode"], v |-> v.val]
                  ELSE [err |-> NoError, v |-> v.val]

\* Do(ctx, req, v): c is the state of ctx when the round trip ends, r what
\* the round trip of req produced, v the decode target.  Returns the error
\* and the value of the target after the call.
Do(c, req, r, v) ==
    IF r.terr
    THEN [err |-> IF c /= "live" THEN ContextError(c) ELSE [type |-> "transport"],
          v |-> v.val]
    ELSE LET resp == Response(req, r)
         IN  IF CheckResponse(resp) /= NoError
             THEN [err |-> CheckResponse(resp), v |-> v.val]
             ELSE IF v.type /= "nil" /\ r.status /= StatusNoContent
                  THEN IF r.body.valid
                       THEN [err |-> NoError, v |-> Decode(v.type, r.body)]
                       ELSE [err |-> [type |-> "decode"], v |-> v.val]
                  ELSE [err |-> NoError, v |-> v.val]

\* The tail of a service ListPage: copy the resource slice to Items.
CopyToItems(l) == [l EXCEPT !.Items = l.Resources]

\* The items the service returned in a page the client decoded.
ServedItems(r) ==
    IF ~r.terr /\ r.status = 200 /\ r.body.valid THEN r.body.items ELSE <<>>

----------------------------------------------------------------------------
(* State.                                                                  *)

VARIABLES
    pc,         \* position of the caller: "idle", "await", "ready",
                \* "await_first", "await_next", "done"
    kind,       \* the operation called: "List", "PageList", "CursorList",
                \* "Iterator" ("" before the call)
    optsIn,     \* the options pointer the caller passed
    opts,       \* the options object the traversal works on
    inflight,   \* the request the caller is blocked on, <<>> if none
    requests,   \* history: the requests issued, in order
    steps,      \* history: how each request was built: "first", "link", "page"
    result,     \* the last page fetched by a listing, <<>> before the first
    allItems,   \* the items a listing has accumulated
    ret,        \* the listing's return value [items, err], <<>> before return
    served,     \* history: the items of the decoded pages, in fetch order
    lastResp,   \* history: the last round trip's outcome, <<>> before it
    npages,     \* history: the number of page fetches that succeeded
    current,    \* Iterator.current, <<>> when nil
    index,      \* Iterator.index
    yielded,    \* history: the items Iterator.Next returned, in order
    lastNext,   \* the last return value [item, err] of Iterator.Next
    cr_resp,    \* the response handed to CheckResponse
    cr_err,     \* the error CheckResponse returned, <<>> before the call
    cr_text,    \* the rendered form of that error, <<>> before Error()
    ctx,        \* the caller's context: "live", "canceled", "deadline"
    target,     \* the decode target of a single call: [type, val]
    bodyIn,     \* the body a single call was passed, <<>> when nil
    wire,       \* history: for each request issued, whether the HTTP
                \* client put it on the wire
    client,     \* the API client: [baseURL, accessToken, accountID, userAgent]
    chain,      \* the pages the service holds, by page number (<<>> where
                \* the responses are arbitrary)
    other       \* a second listing on the same client, suspended: << its
                \* state >>, <<>> where there is none

listVars == <<result, allItems, ret>>
iterVars == <<current, index, yielded, lastNext>>
histVars == <<served, lastResp, npages>>
classifyVars == <<cr_resp, cr_err, cr_text>>
callVars == <<ctx, target, bodyIn>>
envVars == <<client, chain, other>>
vars == <<pc, kind, optsIn, opts, inflight, requests, steps, wire, result,
          allItems, ret, served, lastResp, npages, current, index, yielded,
          lastNext, cr_resp, cr_err, cr_text, ctx, target, bodyIn, client,
          chain, other>>

\* NewWithConfig with non-empty credentials and user agent: the client it
\* returns, its base URL parsed from defaultBaseURL.
NewWithConfig(accessToken, accountID, userAgent) ==
    [baseURL |-> defaultBaseURL, accessToken |-> accessToken,
     accountID |-> accountID, userAgent |-> userAgent]

\* The clients of the single-call specification: two access tokens, two
\* accounts.
Clients ==
    { NewWithConfig(t, a, "app (dev@example.com)") :
          t \in {"token-a", "token-b"}, a \in {"1001", "1002"} }

\* The options pointers a caller may pass: nil or an options object.
OptionPointers == { <<>> } \cup { <<o>> : o \in ListOptions }

InitCall ==
    /\ pc = "idle"
    /\ kind = ""
    /\ optsIn = <<>>
    /\ opts = ZeroOptions
    /\ inflight = <<>>
    /\ requests = <<>>
    /\ steps = <<>>
    /\ result = <<>>
    /\ allItems = <<>>
    /\ ret = <<>>
    /\ served = <<>>
    /\ lastResp = <<>>
    /\ npages = 0
    /\ current = <<>>
    /\ index = 0
    /\ yielded = <<>>
    /\ lastNext = <<>>
    /\ ctx = "live"
    /\ target = NilTarget
    /\ bodyIn = <<>>
    /\ wire = <<>>

InitResponse ==
    /\ cr_resp = Response(NewRequest(client, "GET", ListPath, <<>>),
                          [status |-> 200, body |-> EmptyBody,
                           header |-> NoHeaders])
    /\ cr_err = <<>>
    /\ cr_text = <<>>

\* One caller, and a service whose responses are arbitrary.
InitSingle ==
    /\ chain = <<>>
    /\ other = <<>>

Init ==
    /\ InitCall
    /\ client = NewWithConfig("token-a", "1001", "app (dev@example.com)")
    /\ InitResponse
    /\ InitSingle

\* As Init, for any of the clients.
InitCrud ==
    /\ InitCall
    /\ client \in Clients
    /\ InitResponse
    /\ InitSingle

\* Issue a request and block on it.
Send(req, step) ==
    /\ Len(requests) < MaxFetch
    /\ inflight' = <<req>>
    /\ requests' = Append(requests, req)
    /\ steps' = Append(steps, step)
    /\ wire' = Append(wire, RoundTripSends(ctx, req))

\* The round trip of the request in flight ends with outcome r; a request
\* that was not put on the wire has no response.
Receive(r) ==
    /\ wire[Len(wire)] \/ r.terr
    /\ served' = served \o ServedItems(r)
    /\ lastResp' = <<r>>
    /\ npages' = IF Do(ctx, inflight[1], r, Target("Paginated")).err = NoError THEN npages + 1 ELSE npages

\* Return from a listing.
Return(items, err) ==
    /\ ret' = << [items |-> items, err |-> err] >>
    /\ pc' = "done"
    /\ inflight' = <<>>
    /\ UNCHANGED <<requests, steps, wire>>

----------------------------------------------------------------------------
(* Eager "fetch all" listings.                                             *)

\* As NormalizeListOptions, but the per-page size is left as passed.
NormalizeListOptions_noPerPage(p) ==
    LET o == IF p = <<>> THEN ZeroOptions ELSE p[1]
    IN  [Page |-> IF o.Page = 0 THEN 1 ELSE o.Page, PerPage |-> o.PerPage]

\* List, TasksService.List, InvoicesService.List: nil options become the
\* zero options, an unset page becomes 1, an unset per-page size the default.
NormalizeListOptions(p) ==
    LET o == IF p = <<>> THEN ZeroOptions ELSE p[1]
    IN  [Page |-> IF o.Page = 0 THEN 1 ELSE o.Page,
         PerPage |-> IF o.PerPage = 0 THEN DefaultPerPage ELSE o.PerPage]

\* As NormalizeCursorOptions, but an unset page becomes 1.
NormalizeCursorOptions_pageOne(p) ==
    LET o == IF p = <<>> THEN ZeroOptions ELSE p[1]
    IN  [Page |-> IF o.Page = 0 THEN 1 ELSE o.Page,
         PerPage |-> IF o.PerPage = 0 THEN DefaultPerPage ELSE o.PerPage]

\* UsersService.List, ListItemCategories: the page is left as passed.
NormalizeCursorOptions(p) ==
    LET o == IF p = <<>> THEN ZeroOptions ELSE p[1]
    IN  [Page |-> o.Page,
         PerPage |-> IF o.PerPage = 0 THEN DefaultPerPage ELSE o.PerPage]

\* As NextStep, but the page number is tried before the link.
NextStep_pageFirst(p) ==
    IF HasNextPage(p)
    THEN IF p.NextPage /= <<>>
         THEN "page"
         ELSE IF GetNextPageURL(p) /= EmptyURL THEN "link" ELSE "stop"
    ELSE "stop"

\* The branch the loop of List takes after page p.
NextStep(p) ==
    IF HasNextPage(p)
    THEN IF GetNextPageURL(p) /= EmptyURL
         THEN "link"
         ELSE IF p.NextPage /= <<>> THEN "page" ELSE "stop"
    ELSE "stop"

\* As AdvancePage, but the page number is incremented.
AdvancePage_increment(o, p) == [o EXCEPT !.Page = o.Page + 1]

\* opts.Page = *result.NextPage
AdvancePage(o, p) == [o EXCEPT !.Page = p.NextPage[1]]

\* As FailedList, but the items accumulated so far are returned.
FailedList_partial(acc, err) == [items |-> acc, err |-> err]

\* return nil, err
FailedList(acc, err) == [items |-> <<>>, err |-> err]

\* return allItems, nil
CompletedList(acc) == [items |-> acc, err |-> NoError]

\* The request of ListPage(path, opts).
ListPageRequest(o) == NewRequest(client, "GET", addOptions(ListPath, o), <<>>)

\* The request of ListPageFromURL(fullURL).
ListPageFromURLRequest(fullURL) ==
    NewRequest(client, "GET", PathAndQuery(fullURL), <<>>)

\* The loop of List and of the cursor service listings after page p has
\* been appended: follow the link, advance the page number, or return.
ListLoop(p, items) ==
    CASE NextStep(p) = "link" ->
            /\ Send(ListPageFromURLRequest(GetNextPageURL(p)), "link")
            /\ UNCHANGED <<opts, ret, pc>>
      [] NextStep(p) = "page" ->
            /\ opts' = AdvancePage(opts, p)
            /\ Send(ListPageRequest(opts'), "page")
            /\ UNCHANGED <<ret, pc>>
      [] OTHER ->
            /\ Return(CompletedList(items).items, CompletedList(items).err)
            /\ UNCHANGED opts

\* List[T]: the options are normalized and the first page is requested.
ListCall(p) ==
    /\ pc = "idle"
    /\ kind' = "List"
    /\ optsIn' = p
    /\ opts' = NormalizeListOptions(p)
    /\ Send(ListPageRequest(opts'), "first")
    /\ pc' = "await"
    /\ UNCHANGED <<listVars, histVars, iterVars, classifyVars,
                   callVars, envVars>>

\* As ListReceive, but a failed page is requested once more.
ListReceive_retry(r) ==
    /\ pc = "await"
    /\ kind = "List"
    /\ Receive(r)
    /\ LET d == Do(ctx, inflight[1], r, Target("Paginated"))
           items == allItems \o d.v.Items
       IN  IF d.err /= NoError
           THEN /\ Send(inflight[1], "retry")
                /\ UNCHANGED <<opts, result, allItems, ret, pc>>
           ELSE /\ result' = <<d.v>>
                /\ allItems' = items
                /\ ListLoop(d.v, items)
    /\ UNCHANGED <<kind, optsIn, iterVars, classifyVars, callVars, envVars>>

\* List[T]: a page request returns; the page is decoded into Paginated[T].
ListReceive(r) ==
    /\ pc = "await"
    /\ kind = "List"
    /\ Receive(r)
    /\ LET d == Do(ctx, inflight[1], r, Target("Paginated"))
           items == allItems \o d.v.Items
       IN  IF d.err /= NoError
           THEN /\ Return(FailedList(allItems, d.err).items,
                          FailedList(allItems, d.err).err)
                /\ UNCHANGED <<opts, result, allItems>>
           ELSE /\ result' = <<d.v>>
                /\ allItems' = items
                /\ ListLoop(d.v, items)
    /\ UNCHANGED <<kind, optsIn, iterVars, classifyVars, callVars, envVars>>

\* TasksService.List, InvoicesService.List: options normalized, first page.
PageListCall(p) ==
    /\ pc = "idle"
    /\ kind' = "PageList"
    /\ optsIn' = p
    /\ opts' = NormalizeListOptions(p)
    /\ Send(ListPageRequest(opts'), "first")
    /\ pc' = "await"
    /\ UNCHANGED <<listVars, histVars, iterVars, classifyVars,
                   callVars, envVars>>

\* TasksService.List: a page request returns; append, then stop unless
\* HasNextPage, else set the page number and request again.
PageListReceive(r) ==
    /\ pc = "await"
    /\ kind = "PageList"
    /\ Receive(r)
    /\ LET d == Do(ctx, inflight[1], r, Target("ResourceList"))
           page == CopyToItems(d.v)
           items == allItems \o page.Resources
       IN  IF d.err /= NoError
           THEN /\ Return(FailedList(allItems, d.err).items,
                          FailedList(allItems, d.err).err)
                /\ UNCHANGED <<opts, result, allItems>>
           ELSE /\ result' = <<page>>
                /\ allItems' = items
                /\ IF ~HasNextPage(page)
                   THEN /\ Return(CompletedList(items).items,
                                  CompletedList(items).err)
                        /\ UNCHANGED opts
                   ELSE /\ opts' = AdvancePage(opts, page)
                        /\ Send(ListPageRequest(opts'), "page")
                        /\ UNCHANGED <<ret, pc>>
    /\ UNCHANGED <<kind, optsIn, iterVars, classifyVars, callVars, envVars>>

\* UsersService.List, ListItemCategories: only the per-page size is
\* defaulted, then the first page is requested.
CursorListCall(p) ==
    /\ pc = "idle"
    /\ kind' = "CursorList"
    /\ optsIn' = p
    /\ opts' = NormalizeCursorOptions(p)
    /\ Send(ListPageRequest(opts'), "first")
    /\ pc' = "await"
    /\ UNCHANGED <<listVars, histVars, iterVars, classifyVars,
                   callVars, envVars>>

\* UsersService.List: a page request returns; the page is decoded into the
\* resource list and the loop of List decides the next request.
CursorListReceive(r) ==
    /\ pc = "await"
    /\ kind = "CursorList"
    /\ Receive(r)
    /\ LET d == Do(ctx, inflight[1], r, Target("ResourceList"))
           page == CopyToItems(d.v)
           items == allItems \o page.Resources
       IN  IF d.err /= NoError
           THEN /\ Return(FailedList(allItems, d.err).items,
                          FailedList(allItems, d.err).err)
                /\ UNCHANGED <<opts, result, allItems>>
           ELSE /\ result' = <<page>>
                /\ allItems' = items
                /\ ListLoop(page, items)
    /\ UNCHANGED <<kind, optsIn, iterVars, classifyVars, callVars, envVars>>

----------------------------------------------------------------------------
(* Lazy iterator.                                                          *)

\* NewIterator: nil options become the zero options, an unset page becomes
\* 1, an unset per-page size becomes 100.
NormalizeIteratorOptions(p) ==
    LET o == IF p = <<>> THEN ZeroOptions ELSE p[1]
    IN  [Page |-> IF o.Page = 0 THEN 1 ELSE o.Page,
         PerPage |-> IF o.PerPage = 0 THEN IteratorPerPage ELSE o.PerPage]

\* The iterator's fetcher: a single-page fetch that returns a page whose
\* Items are filled (a service ListPage).
fetcher(r) ==
    LET d == Do(ctx, inflight[1], r, Target("ResourceList"))
    IN  [err |-> d.err, v |-> CopyToItems(d.v)]

\* Return from Iterator.Next.
NextReturn(item, err) ==
    /\ lastNext' = << [item |-> item, err |-> err] >>
    /\ pc' = "ready"
    /\ inflight' = <<>>
    /\ UNCHANGED <<requests, steps, wire>>

\* Iterator.Next, "Return current item and advance", with it.current = cur
\* and it.index = idx: the item at idx, or (nil, nil) if there is none.
YieldOrEnd(cur, idx) ==
    IF idx < Len(cur.Items)
    THEN /\ index' = idx + 1
         /\ yielded' = Append(yielded, cur.Items[idx + 1])
         /\ NextReturn(<< cur.Items[idx + 1] >>, NoError)
    ELSE /\ index' = idx
         /\ UNCHANGED yielded
         /\ NextReturn(<<>>, NoError)

\* Iterator.Next from "Check if we need to fetch the next page" on.
NextFromCurrent(cur, idx) ==
    IF idx >= Len(cur.Items)
    THEN IF ~HasNextPage(cur)
         THEN /\ NextReturn(<<>>, NoError)
              /\ index' = idx
              /\ UNCHANGED <<opts, yielded>>
         ELSE /\ opts' = AdvancePage(opts, cur)
              /\ Send(ListPageRequest(opts'), "page")
              /\ pc' = "await_next"
              /\ index' = idx
              /\ UNCHANGED <<yielded, lastNext>>
    ELSE /\ YieldOrEnd(cur, idx)
         /\ UNCHANGED opts

\* NewIterator.
IterNew(p) ==
    /\ pc = "idle"
    /\ kind' = "Iterator"
    /\ optsIn' = p
    /\ opts' = NormalizeIteratorOptions(p)
    /\ pc' = "ready"
    /\ UNCHANGED <<inflight, requests, steps, wire, listVars, histVars, iterVars,
                   classifyVars, callVars, envVars>>

\* Iterator.Next is called: the first page is requested if none is loaded.
IterNext ==
    /\ pc = "ready"
    /\ kind = "Iterator"
    /\ IF current = <<>>
       THEN /\ Send(ListPageRequest(opts), "first")
            /\ pc' = "await_first"
            /\ UNCHANGED <<opts, index, yielded, lastNext>>
       ELSE NextFromCurrent(current[1], index)
    /\ UNCHANGED <<kind, optsIn, listVars, histVars, current, classifyVars,
                   callVars, envVars>>

\* Iterator.Next: the request of the first page returns.
IterReceiveFirst(r) ==
    /\ pc = "await_first"
    /\ kind = "Iterator"
    /\ Receive(r)
    /\ LET f == fetcher(r)
       IN  IF f.err /= NoError
           THEN /\ NextReturn(<<>>, f.err)
                /\ UNCHANGED <<opts, current, index, yielded>>
           ELSE /\ current' = << f.v >>
                /\ NextFromCurrent(f.v, 0)
    /\ UNCHANGED <<kind, optsIn, listVars, classifyVars, callVars, envVars>>

\* Iterator.Next: the request of a further page returns.
IterReceiveNext(r) ==
    /\ pc = "await_next"
    /\ kind = "Iterator"
    /\ Receive(r)
    /\ LET f == fetcher(r)
       IN  IF f.err /= NoError
           THEN /\ NextReturn(<<>>, f.err)
                /\ UNCHANGED <<opts, current, index, yielded>>
           ELSE /\ current' = << f.v >>
                /\ YieldOrEnd(f.v, 0)
                /\ UNCHANGED opts
    /\ UNCHANGED <<kind, optsIn, listVars, classifyVars, callVars, envVars>>

----------------------------------------------------------------------------
(* Single calls: Get, Create, Update, Delete, ListPage, ListPageFromURL    *)
(* and a direct call of Do.                                                *)

\* The relative path of a single resource.
ResourcePath ==
    [host |-> "", abs |-> FALSE, segs |-> <<"users", "1">>, query |-> <<>>]

\* The bodies a caller may pass: nil or a value.
RequestBodies ==
    { <<>> } \cup { << [id |-> 0, name |-> "n", encodable |-> e] >> :
                      e \in BOOLEAN }

\* The paths a caller may pass: a resource path and a string that is no URL.
Paths ==
    { ResourcePath,
      [host |-> "", abs |-> FALSE, segs |-> <<"%zz">>, query |-> <<>>] }

GetRequest(path) == NewRequest(client, "GET", path, <<>>)

CreateRequest(path, body) == NewRequest(client, "POST", path, body)

\* As UpdateRequest, but with the method PUT.
UpdateRequest_put(path, body) == NewRequest(client, "PUT", path, body)

UpdateRequest(path, body) == NewRequest(client, "PATCH", path, body)

DeleteRequest(path) == NewRequest(client, "DELETE", path, <<>>)

\* The request of ListPage(path, opts): addOptions leaves the path as it
\* is for nil options.
SinglePageRequest(p) ==
    IF p = <<>>
    THEN NewRequest(client, "GET", ListPath, <<>>)
    ELSE ListPageRequest(p[1])

CallKinds ==
    {"Get", "Create", "Update", "Delete", "ListPage", "ListPageFromURL", "Do"}

\* The targets a direct caller of Do may pass: nil, a fresh variable, a
\* variable that holds a value.
DoTargets ==
    { NilTarget, Target("Resource"),
      [type |-> "Resource", val |-> [id |-> 9, name |-> "old"]] }

\* The body of a single resource served in answer to request number f.
ResourceBody(f) ==
    [EmptyBody EXCEPT !.valid = TRUE, !.raw = "json",
                      !.resource = [id |-> f, name |-> "r"]]

\* What the round trip of request number f of a single call can produce.
CallResponses(f) ==
    { [terr |-> TRUE, status |-> 0, body |-> EmptyBody, header |-> NoHeaders] }
    \cup { [terr |-> FALSE, status |-> s, body |-> b, header |-> NoHeaders] :
              s \in {200, 201},
              b \in {ResourceBody(f), EmptyBody}
                    \cup { pb \in PageBodies(f) : Len(pb.items) = 1 } }
    \cup { [terr |-> FALSE, status |-> StatusNoContent, body |-> b,
            header |-> NoHeaders] : b \in {ResourceBody(f), EmptyBody} }
    \cup { [terr |-> FALSE, status |-> s, body |-> b, header |-> NoHeaders] :
              s \in {301, StatusNotFound, StatusUnprocessableEntity,
                     StatusTooManyRequests, 500},
              b \in {ResourceBody(f), EmptyBody} }

\* What a single call of kind k returns when Do returned d: Delete and Do
\* return the error only, the others a nil result with the error or the
\* pointer to the result without error.
CallReturn(k, d) ==
    IF k \in {"Delete", "Do"}
    THEN [err |-> d.err]
    ELSE IF d.err /= NoError
         THEN [result |-> <<>>, err |-> d.err]
         ELSE [result |-> <<d.v>>, err |-> NoError]

\* A single call of kind k starts.  If building the request failed with
\* err the call returns that error without a request; otherwise the request
\* req is sent, v being the decode target handed to Do.
Begin(k, err, req, v, body) ==
    /\ pc = "idle"
    /\ kind' = k
    /\ target' = v
    /\ bodyIn' = body
    /\ IF err /= NoError
       THEN /\ ret' = << CallReturn(k, [err |-> err, v |-> v.val]) >>
            /\ pc' = "done"
            /\ UNCHANGED <<inflight, requests, steps, wire>>
       ELSE /\ Send(req, "first")
            /\ pc' = "await"
            /\ UNCHANGED ret
    /\ UNCHANGED <<opts, result, allItems, histVars, iterVars, classifyVars,
                   ctx, envVars>>

GetCall(path) ==
    /\ Begin("Get", NewRequestError(path, <<>>), GetRequest(path),
             Target("Resource"), <<>>)
    /\ UNCHANGED optsIn

CreateCall(path, body) ==
    /\ Begin("Create", NewRequestError(path, body), CreateRequest(path, body),
             Target("Resource"), body)
    /\ UNCHANGED optsIn

UpdateCall(path, body) ==
    /\ Begin("Update", NewRequestError(path, body), UpdateRequest(path, body),
             Target("Resource"), body)
    /\ UNCHANGED optsIn

DeleteCall(path) ==
    /\ Begin("Delete", NewRequestError(path, <<>>), DeleteRequest(path),
             NilTarget, <<>>)
    /\ UNCHANGED optsIn

ListPageCall(p) ==
    /\ Begin("ListPage", NoError, SinglePageRequest(p), Target("Paginated"),
             <<>>)
    /\ optsIn' = p

\* ListPageFromURL: url.Parse(fullURL) fails on a string that is no URL.
ListPageFromURLCall(fullURL) ==
    /\ Begin("ListPageFromURL",
             IF ParseFails(fullURL) THEN [type |-> "url"] ELSE NoError,
             ListPageFromURLRequest(fullURL), Target("Paginated"), <<>>)
    /\ UNCHANGED optsIn

\* Do is called directly with the request req and the target v.
DoCall(req, v) ==
    /\ Begin("Do", NoError, req, v, req.body)
    /\ UNCHANGED optsIn

\* The round trip of a single call ends and the call returns.
CallReceive(r) ==
    /\ pc = "await"
    /\ kind \in CallKinds
    /\ Receive(r)
    /\ LET d == Do(ctx, inflight[1], r, target)
       IN  /\ target' = [target EXCEPT !.val = d.v]
           /\ ret' = << CallReturn(kind, d) >>
    /\ pc' = "done"
    /\ inflight' = <<>>
    /\ UNCHANGED <<kind, optsIn, opts, requests, steps, wire, result,
                   allItems, iterVars, classifyVars, ctx, bodyIn, envVars>>

\* The caller's context is cancelled (e = "canceled") or its deadline
\* passes (e = "deadline").
Cancel(e) ==
    /\ ctx = "live"
    /\ pc \in {"idle", "await"}
    /\ ctx' = e
    /\ UNCHANGED <<pc, kind, optsIn, opts, inflight, requests, steps, wire,
                   listVars, histVars, iterVars, classifyVars, target,
                   bodyIn, envVars>>

----------------------------------------------------------------------------
(* Specifications.                                                         *)

Next ==
    \/ \E p \in OptionPointers : ListCall(p)
    \/ \E r \in Responses(Len(requests)) : ListReceive(r)
    \/ \E p \in OptionPointers : PageListCall(p)
    \/ \E r \in Responses(Len(requests)) : PageListReceive(r)
    \/ \E p \in OptionPointers : CursorListCall(p)
    \/ \E r \in Responses(Len(requests)) : CursorListReceive(r)
    \/ \E p \in OptionPointers : IterNew(p)
    \/ IterNext
    \/ \E r \in Responses(Len(requests)) : IterReceiveFirst(r)
    \/ \E r \in Responses(Len(requests)) : IterReceiveNext(r)

Spec == Init /\ [][Next]_vars

\* The requests the classified responses answer.
ClassifyRequests ==
    { NewRequest(client, "GET", ListPath, <<>>),
      NewRequest(client, "POST", ListPath,
                 << [id |-> 0, name |-> "n", encodable |-> TRUE] >>) }

\* The field-level sub-errors an error envelope may carry.
SubErrors ==
    { <<>>,
      << [Field |-> "name", Message |-> "required"] >>,
      << [Field |-> "name", Message |-> "required"],
         [Field |-> "email", Message |-> "taken"] >> }

\* The JSON error envelopes: error absent or present, with and without
\* error_description.
ErrorBodies ==
    { [valid |-> TRUE, raw |-> "json", items |-> <<>>, next_page |-> <<>>,
       links |-> <<>>, error |-> m, error_description |-> d,
       resource |-> ZeroResource] :
          m \in {"", "not found", "invalid"}, d \in SubErrors }

\* The bodies that are no JSON document: empty, not JSON, unreadable.
InvalidBodies ==
    { [EmptyBody EXCEPT !.raw = k] : k \in {"empty", "garbage", "unreadable"} }

\* The values of a rate-limit header.
HeaderValues(ints) ==
    { EmptyString, [kind |-> "text", val |-> 0], [kind |-> "huge", val |-> 0] }
    \cup { [kind |-> "int", val |-> n] : n \in ints }

RateHeaders ==
    [limit : HeaderValues({100}), remaining : HeaderValues({0, 40}),
     reset : HeaderValues({1700000000})]

\* The responses CheckResponse is applied to: every status of the range
\* with every body, and the 429 response with every combination of the
\* rate-limit headers.
ClassifyInputs ==
    { Response(q, [status |-> s, body |-> b, header |-> NoHeaders]) :
          q \in ClassifyRequests, s \in MinStatus..MaxStatus,
          b \in ErrorBodies \cup InvalidBodies }
    \cup { Response(q, [status |-> StatusTooManyRequests, body |-> EmptyBody,
                        header |-> h]) :
              q \in ClassifyRequests, h \in RateHeaders }

InitClassify ==
    /\ InitCall
    /\ client = NewWithConfig("token-a", "1001", "app (dev@example.com)")
    /\ cr_resp \in ClassifyInputs
    /\ cr_err = <<>>
    /\ cr_text = <<>>
    /\ InitSingle

\* CheckResponse is applied to the response.
CheckResponseCall ==
    /\ cr_err = <<>>
    /\ cr_err' = << CheckResponse(cr_resp) >>
    /\ UNCHANGED <<pc, kind, optsIn, opts, inflight, requests, steps, wire,
                   listVars, histVars, iterVars, cr_resp, cr_text,
                   callVars, envVars>>

\* Error() is called on the error CheckResponse returned.
ErrorCall ==
    /\ cr_err /= <<>>
    /\ cr_err[1] /= NoError
    /\ cr_text = <<>>
    /\ cr_text' = << Error(cr_err[1]) >>
    /\ UNCHANGED <<pc, kind, optsIn, opts, inflight, requests, steps, wire,
                   listVars, histVars, iterVars, cr_resp, cr_err,
                   callVars, envVars>>

NextClassify ==
    \/ CheckResponseCall
    \/ ErrorCall

SpecClassify == InitClassify /\ [][NextClassify]_vars

NextCrud ==
    \/ \E path \in Paths : GetCall(path)
    \/ \E path \in Paths, b \in RequestBodies : CreateCall(path, b)
    \/ \E path \in Paths, b \in RequestBodies : UpdateCall(path, b)
    \/ \E path \in Paths : DeleteCall(path)
    \/ \E p \in OptionPointers : ListPageCall(p)
    \/ \E u \in NextLinks \cup {[host |-> "", abs |-> FALSE,
                                  segs |-> <<"%zz">>, query |-> <<>>]} :
          ListPageFromURLCall(u)
    \/ \E q \in {GetRequest(ResourcePath), DeleteRequest(ResourcePath)},
          v \in DoTargets : DoCall(q, v)
    \/ \E r \in CallResponses(Len(requests)) : CallReceive(r)
    \/ \E e \in {"canceled", "deadline"} : Cancel(e)

SpecCrud == InitCrud /\ [][NextCrud]_vars

\* The responses of Responses(f) whose pages hold one item.
CancelResponses(f) ==
    { r \in Responses(f) : r.body.valid => Len(r.body.items) = 1 }

\* The eager listings, called with nil options, under a context that may
\* be cancelled at any moment.
NextCancel ==
    \/ ListCall(<<>>)
    \/ \E r \in CancelResponses(Len(requests)) : ListReceive(r)
    \/ PageListCall(<<>>)
    \/ \E r \in CancelResponses(Len(requests)) : PageListReceive(r)
    \/ CursorListCall(<<>>)
    \/ \E r \in CancelResponses(Len(requests)) : CursorListReceive(r)
    \/ \E e \in {"canceled", "deadline"} : Cancel(e)

SpecCancel == Init /\ [][NextCancel]_vars

\* Next-links a server may also send: a URL on another host, and a URL on
\* the service's host whose path begins with "//".
ForeignLinks ==
    { [host |-> "evil.example", abs |-> TRUE,
       segs |-> <<"v2", "users">>, query |-> <<>>],
      [host |-> "api.harvestapp.com", abs |-> TRUE,
       segs |-> <<"", "evil.example", "v2", "users">>, query |-> <<>>] }

\* The pages of one item that answer request number f, with any next-link.
LinkResponses(f) ==
    { [terr |-> FALSE, status |-> 200,
       body |-> [valid |-> TRUE, raw |-> "json", items |-> WireItems(f, 1),
                 next_page |-> np, links |-> << [Next |-> u] >>,
                 error |-> "", error_description |-> <<>>,
                 resource |-> ZeroResource],
       header |-> NoHeaders] :
          np \in NextPageValues,
          u \in {EmptyURL} \cup NextLinks \cup ForeignLinks }

\* The listings that follow links, and ListPageFromURL, against a server
\* that sends any next-link.
NextLink ==
    \/ ListCall(<<>>)
    \/ \E r \in LinkResponses(Len(requests)) : ListReceive(r)
    \/ CursorListCall(<<>>)
    \/ \E r \in LinkResponses(Len(requests)) : CursorListReceive(r)
    \/ \E u \in NextLinks \cup ForeignLinks : ListPageFromURLCall(u)
    \/ \E r \in LinkResponses(Len(requests)) : CallReceive(r)

SpecLink == Init /\ [][NextLink]_vars

----------------------------------------------------------------------------
(* A service that holds a chain of pages, and two listings on one client.  *)

\* The page a request asks for: the one its page parameter names, the
\* second page for the cursor of a next-link, the first page otherwise.
RequestedPage(req) ==
    LET q == req.url.query
        at(k) == { i \in 1..Len(q) : q[i][1] = k }
    IN  IF at("page") /= {}
        THEN q[CHOOSE i \in at("page") : TRUE][2]
        ELSE IF at("cursor") /= {} THEN 2 ELSE 1

\* The response with page number k of a chain: n items, next_page np and
\* links.next u.
ChainPage(k, n, np, u) ==
    [terr |-> FALSE, status |-> 200,
     body |-> [valid |-> TRUE, raw |-> "json", items |-> WireItems(k, n),
               next_page |-> np, links |-> << [Next |-> u] >>,
               error |-> "", error_description |-> <<>>,
               resource |-> ZeroResource],
     header |-> NoHeaders]

\* The response to a request for a page the service does not hold.
NotFound ==
    [terr |-> FALSE, status |-> StatusNotFound, body |-> EmptyBody,
     header |-> NoHeaders]

\* The service answers a request with the page it asks for.
Serve(c, req) ==
    IF RequestedPage(req) \in 1..Len(c) THEN c[RequestedPage(req)] ELSE NotFound

\* The chains of MaxChain pages under page-number pagination: a page holds
\* no item or one, and names the following page or none.
PageChains ==
    { c \in [1..MaxChain ->
                { ChainPage(k, n, np, EmptyURL) :
                      k \in 1..MaxChain, n \in 0..1,
                      np \in {<<>>} \cup { <<j>> : j \in 2..(MaxChain + 1) } }] :
          \A k \in 1..MaxChain :
              /\ c[k].body.items \in { WireItems(k, n) : n \in 0..1 }
              /\ c[k].body.next_page \in { <<>>, <<k + 1>> } }

\* The next-link of a page of a chain.
CursorLink ==
    [host |-> "api.harvestapp.com", abs |-> TRUE,
     segs |-> <<"v2", "users">>, query |-> << <<"cursor", "c1">> >>]

\* The chains of MaxShared pages two listings are served from: a page holds
\* one item, names the following page or none and carries a next-link or
\* none.
SharedChains ==
    { c \in [1..MaxShared ->
                { ChainPage(k, 1, np, u) :
                      k \in 1..MaxShared,
                      np \in {<<>>} \cup { <<j>> : j \in 2..(MaxShared + 1) },
                      u \in {EmptyURL, CursorLink} }] :
          \A k \in 1..MaxShared :
              /\ c[k].body.items = WireItems(k, 1)
              /\ c[k].body.next_page \in { <<>>, <<k + 1>> } }

\* What a listing owns: the locals of its call, its iterator and its
\* options object.
ListingState ==
    [pc |-> pc, kind |-> kind, optsIn |-> optsIn, opts |-> opts,
     inflight |-> inflight, requests |-> requests, steps |-> steps,
     wire |-> wire, result |-> result, allItems |-> allItems, ret |-> ret,
     served |-> served, lastResp |-> lastResp, npages |-> npages,
     current |-> current, index |-> index, yielded |-> yielded,
     lastNext |-> lastNext]

\* As Resume, but the options object in place stays in place: the two
\* listings work on one options object.
Resume_sharedOptions(l) ==
    /\ pc' = l.pc
    /\ kind' = l.kind
    /\ optsIn' = l.optsIn
    /\ opts' = opts
    /\ inflight' = l.inflight
    /\ requests' = l.requests
    /\ steps' = l.steps
    /\ wire' = l.wire
    /\ result' = l.result
    /\ allItems' = l.allItems
    /\ ret' = l.ret
    /\ served' = l.served
    /\ lastResp' = l.lastResp
    /\ npages' = l.npages
    /\ current' = l.current
    /\ index' = l.index
    /\ yielded' = l.yielded
    /\ lastNext' = l.lastNext

\* The listing l runs on: it finds its locals, its iterator and its options
\* object as it left them.
Resume(l) ==
    /\ pc' = l.pc
    /\ kind' = l.kind
    /\ optsIn' = l.optsIn
    /\ opts' = l.opts
    /\ inflight' = l.inflight
    /\ requests' = l.requests
    /\ steps' = l.steps
    /\ wire' = l.wire
    /\ result' = l.result
    /\ allItems' = l.allItems
    /\ ret' = l.ret
    /\ served' = l.served
    /\ lastResp' = l.lastResp
    /\ npages' = l.npages
    /\ current' = l.current
    /\ index' = l.index
    /\ yielded' = l.yielded
    /\ lastNext' = l.lastNext

\* The scheduler lets the other listing run.
Switch ==
    /\ other /= <<>>
    /\ other' = << ListingState >>
    /\ Resume(other[1])
    /\ UNCHANGED <<classifyVars, callVars, client, chain>>

\* Iterator.All calls Next until it returns an error or no item.
AllNext ==
    /\ kind = "Iterator"
    /\ lastNext /= <<>> =>
          (lastNext[1].err = NoError /\ lastNext[1].item /= <<>>)
    /\ IterNext

\* The round trip of the request in flight against the chain.
ChainReceive ==
    /\ inflight /= <<>>
    /\ \/ ListReceive(Serve(chain, inflight[1]))
       \/ PageListReceive(Serve(chain, inflight[1]))
       \/ CursorListReceive(Serve(chain, inflight[1]))
       \/ IterReceiveFirst(Serve(chain, inflight[1]))
       \/ IterReceiveNext(Serve(chain, inflight[1]))

\* An eager listing of kind k run alone against the chain c, from the
\* moment the last request of reqs is in flight, with the options object o
\* and the items acc accumulated: the requests it issues, whether it returns
\* within MaxFetch requests, its return value and its options object.
RECURSIVE EagerFrom(_, _, _, _, _)
EagerFrom(k, o, reqs, acc, c) ==
    LET req == reqs[Len(reqs)]
        d == Do("live", req, Serve(c, req),
                Target(IF k = "List" THEN "Paginated" ELSE "ResourceList"))
        page == IF k = "List" THEN d.v ELSE CopyToItems(d.v)
        items == acc \o (IF k = "List" THEN page.Items ELSE page.Resources)
        step == IF k = "PageList"
                THEN IF HasNextPage(page) THEN "page" ELSE "stop"
                ELSE NextStep(page)
        o2 == IF step = "page" THEN AdvancePage(o, page) ELSE o
        next == IF step = "link"
                THEN ListPageFromURLRequest(GetNextPageURL(page))
                ELSE ListPageRequest(o2)
    IN  IF d.err /= NoError
        THEN [requests |-> reqs, returned |-> TRUE,
              ret |-> FailedList(acc, d.err), opts |-> o]
        ELSE IF step = "stop"
             THEN [requests |-> reqs, returned |-> TRUE,
                   ret |-> CompletedList(items), opts |-> o]
             ELSE IF Len(reqs) = MaxFetch
                  THEN [requests |-> reqs, returned |-> FALSE,
                        ret |-> CompletedList(<<>>), opts |-> o]
                  ELSE EagerFrom(k, o2, Append(reqs, next), items, c)

\* The eager listing of kind k called alone with the options pointer p.
ListAlone(k, p, c) ==
    LET o == IF k = "CursorList" THEN NormalizeCursorOptions(p)
                                 ELSE NormalizeListOptions(p)
    IN  EagerFrom(k, o, << ListPageRequest(o) >>, <<>>, c)

\* Iterator.All run alone against the chain c, from the moment the last
\* request of reqs is in flight: viaNext tells the fetch of a further page
\* from the fetch of the first, acc are the items Next has returned.
RECURSIVE AllFrom(_, _, _, _, _)
AllFrom(o, reqs, acc, viaNext, c) ==
    LET req == reqs[Len(reqs)]
        d == Do("live", req, Serve(c, req), Target("ResourceList"))
        page == CopyToItems(d.v)
        items == acc \o page.Items
        o2 == AdvancePage(o, page)
    IN  IF d.err /= NoError
        THEN [requests |-> reqs, returned |-> TRUE,
              ret |-> FailedList(acc, d.err), opts |-> o]
        ELSE IF (viaNext /\ page.Items = <<>>) \/ ~HasNextPage(page)
             THEN [requests |-> reqs, returned |-> TRUE,
                   ret |-> CompletedList(items), opts |-> o]
             ELSE IF Len(reqs) = MaxFetch
                  THEN [requests |-> reqs, returned |-> FALSE,
                        ret |-> CompletedList(<<>>), opts |-> o]
                  ELSE AllFrom(o2, Append(reqs, ListPageRequest(o2)), items,
                               TRUE, c)

\* NewIterator(p) and All called alone.
AllAlone(p, c) ==
    LET o == NormalizeIteratorOptions(p)
    IN  AllFrom(o, << ListPageRequest(o) >>, <<>>, FALSE, c)

\* What Iterator.All returns when Next has returned last after the items
\* yield: nil with the error of Next, or the items.
All(yield, last) ==
    IF last.err /= NoError
    THEN [items |-> <<>>, err |-> last.err]
    ELSE [items |-> yield, err |-> NoError]

\* Two listings on one client: the second is suspended before its call.
InitTwo ==
    /\ InitCall
    /\ client = NewWithConfig("token-a", "1001", "app (dev@example.com)")
    /\ InitResponse
    /\ other = << ListingState >>

\* The options pointers of two listings on a shared chain.
SharedOptions == { <<>>, << [Page |-> MaxShared, PerPage |-> 0] >> }

InitShared ==
    /\ InitTwo
    /\ chain \in SharedChains

NextShared ==
    \/ \E p \in SharedOptions : ListCall(p)
    \/ \E p \in SharedOptions : PageListCall(p)
    \/ \E p \in SharedOptions : CursorListCall(p)
    \/ \E p \in SharedOptions : IterNew(p)
    \/ AllNext
    \/ ChainReceive
    \/ Switch

SpecShared == InitShared /\ [][NextShared]_vars

\* A page-number service listing and Iterator.All over one chain.
InitChain ==
    /\ InitTwo
    /\ chain \in PageChains

NextChain ==
    \/ \E p \in OptionPointers : PageListCall(p)
    \/ \E p \in OptionPointers : IterNew(p)
    \/ AllNext
    \/ ChainReceive
    \/ Switch

SpecChain == InitChain /\ [][NextChain]_vars

----------------------------------------------------------------------------
(* Properties.                                                             *)

Last(s) == s[Len(s)]

IsPrefix(s, t) == Len(s) <= Len(t) /\ SubSeq(t, 1, Len(s)) = s

\* The values the query q carries for key k.
QueryValues(q, k) == { q[i][2] : i \in { j \in 1..Len(q) : q[j][1] = k } }

\* The page carries a next-link.
LinkPresent(p) == p.Links /= <<>> /\ p.Links[1].Next /= EmptyURL

EagerKinds == {"List", "PageList", "CursorList"}

\* The listing has returned without error.
Completed == pc = "done" /\ ret[1].err = NoError

\* The listing has returned an error.
Failed == pc = "done" /\ ret[1].err /= NoError

\* C1: the slice an eager listing returns is the concatenation of the items
\* of the pages served, in fetch order and in-page order: nothing dropped,
\* duplicated or reordered.
C1_ListConcatenatesPages == Completed => ret[1].items = served

\* C2: HasNextPage is true if and only if NextPage is present or the
\* next-link is present.
C2_HasNextPageIff ==
    \A p \in { result[i] : i \in 1..Len(result) }
             \cup { current[i] : i \in 1..Len(current) } :
        HasNextPage(p) <=> (p.NextPage /= <<>> \/ LinkPresent(p))

\* C3: in a cursor traversal every follow-up request built from a link
\* targets the path and query of the previous page's links.next, and the
\* traversal halts exactly when the last page has neither links.next nor
\* next_page (it continues whenever one of them is present).
C3_CursorTraversal ==
    kind \in {"List", "CursorList"} =>
        /\ (pc = "await" /\ Last(steps) = "link") =>
              /\ inflight[1].url.segs = GetNextPageURL(result[1]).segs
              /\ inflight[1].url.query = GetNextPageURL(result[1]).query
        /\ Completed =>
              (result[1].NextPage = <<>> /\ ~LinkPresent(result[1]))
        /\ (pc = "await" /\ result /= <<>>) =>
              (result[1].NextPage /= <<>> \/ LinkPresent(result[1]))

\* C4: in a page-number traversal, after each page whose NextPage is
\* present the options' page number is that value and exactly one further
\* request is issued, for that page; the traversal stops when NextPage is
\* absent, so that there is one request per page fetched (NextPage = N+1
\* followed by no NextPage gives exactly 2 requests).
C4_PageNumberTraversal ==
    kind \in EagerKinds =>
        /\ (/\ pc = "await"
            /\ result /= <<>>
            /\ (kind = "PageList" \/ ~LinkPresent(result[1]))) =>
              /\ result[1].NextPage /= <<>>
              /\ opts.Page = result[1].NextPage[1]
              /\ QueryValues(inflight[1].url.query, "page")
                    = { result[1].NextPage[1] }
              /\ Last(steps) = "page"
              /\ Len(requests) = npages + 1
        /\ Completed =>
              (result[1].NextPage = <<>> /\ Len(requests) = npages)

\* A page-number listing of two pages: page 1 reported NextPage = 2, page 2
\* reported none, and two requests were issued.
C4_Witness ==
    /\ kind = "PageList"
    /\ Completed
    /\ Len(requests) = 2
    /\ QueryValues(requests[1].url.query, "page") = {1}
    /\ QueryValues(requests[2].url.query, "page") = {2}
    /\ Len(served) = 2 * MaxItems

\* C5: when the page just fetched exposes both a next-link and a NextPage,
\* the loop follows the link and leaves the options untouched; when it
\* exposes neither, the loop stops.
C5_LinkPreferred ==
    [][ (pc = "await" /\ kind \in {"List", "CursorList"}
                      /\ npages' = npages + 1) =>
          /\ (result'[1].NextPage /= <<>> /\ LinkPresent(result'[1])) =>
                /\ pc' = "await"
                /\ Last(steps') = "link"
                /\ inflight'[1].url.segs = GetNextPageURL(result'[1]).segs
                /\ inflight'[1].url.query = GetNextPageURL(result'[1]).query
                /\ opts' = opts
          /\ (result'[1].NextPage = <<>> /\ ~LinkPresent(result'[1])) =>
                /\ pc' = "done"
                /\ ret'[1].err = NoError
                /\ requests' = requests ]_vars

\* The generic List follows the link of a page that also carries a NextPage.
C5_Witness ==
    /\ kind = "List"
    /\ pc = "await"
    /\ result /= <<>>
    /\ result[1].NextPage /= <<>>
    /\ LinkPresent(result[1])
    /\ Last(steps) = "link"
    /\ opts.Page /= result[1].NextPage[1]

\* C6: when a page fetch of an eager listing fails, the listing returns that
\* error with a nil result: the items of the pages fetched before are not
\* returned.
C6_FailureDiscardsPages ==
    (kind \in EagerKinds /\ pc = "done") =>
        /\ Do(ctx, Last(requests), lastResp[1], Target("Paginated")).err /= NoError =>
              ret[1] = [items |-> <<>>,
                        err |-> Do(ctx, Last(requests), lastResp[1], Target("Paginated")).err]
        /\ ret[1].err /= NoError => ret[1].items = <<>>

\* A listing failed on its second page after a first page with items.
C6_Witness ==
    /\ kind \in EagerKinds
    /\ Failed
    /\ Len(requests) = 2
    /\ allItems /= <<>>
    /\ ret[1].items = <<>>

EndSignal == << [item |-> <<>>, err |-> NoError] >>

\* C7: Iterator.Next yields the items of the pages of a chain in page order
\* and in-page order, each once, and only then the end-of-sequence signal:
\* at the signal every page of the chain has been fetched and every item of
\* it has been yielded.
C7_IteratorYieldsChain ==
    kind = "Iterator" =>
        /\ IsPrefix(yielded, served)
        /\ lastNext = EndSignal =>
              /\ yielded = served
              /\ current /= <<>>
              /\ current[1].NextPage = <<>>

\* C8: Iterator.Next requests a further page only when every item of the
\* current page has been returned, and returns the end-of-sequence signal
\* only when the page fetched last has no next-page indicator.
C8_NextFetchesLazily ==
    kind = "Iterator" =>
        /\ pc = "await_next" => index >= Len(current[1].Items)
        /\ (pc = "ready" /\ lastNext = EndSignal) => ~HasNextPage(current[1])

\* C9: an eager page-number listing called with nil options or with Page = 0
\* and PerPage = 0 works on Page = 1 and PerPage = DefaultPerPage when the
\* first request is issued, the first request carries page=1 and
\* per_page=DefaultPerPage, and no request carries per_page=0.
C9_OptionDefaulting ==
    (/\ kind \in {"List", "PageList"}
     /\ optsIn \in { <<>>, <<ZeroOptions>> }
     /\ requests /= <<>>) =>
        /\ requests[1].url.query
              = << <<"page", 1>>, <<"per_page", DefaultPerPage>> >>
        /\ (Len(requests) = 1 /\ pc = "await") =>
              opts = [Page |-> 1, PerPage |-> DefaultPerPage]
        /\ opts.PerPage = DefaultPerPage
        /\ \A i \in 1..Len(requests) :
              0 \notin QueryValues(requests[i].url.query, "per_page")

\* The generic List was called with Page = 0 and PerPage = 0 and its first
\* request is in flight.
C9_Witness ==
    /\ kind = "List"
    /\ optsIn = <<ZeroOptions>>
    /\ pc = "await"
    /\ Len(requests) = 1

\* C10: CheckResponse returns no error exactly for the statuses 200..299, a
\* RateLimitError exactly for 429 and an ErrorResponse for every other one.
C10_Classification ==
    cr_err /= <<>> =>
        LET c == cr_resp.status
            e == cr_err[1]
        IN  /\ e.type \in {"nil", "RateLimitError", "ErrorResponse"}
            /\ e = NoError <=> (200 <= c /\ c <= 299)
            /\ e.type = "RateLimitError" <=> c = StatusTooManyRequests
            /\ e.type = "ErrorResponse" <=>
                  (~(200 <= c /\ c <= 299) /\ c /= StatusTooManyRequests)

\* CheckResponse has classified a 429 response as a RateLimitError.
C10_Witness ==
    /\ cr_err /= <<>>
    /\ cr_resp.status = StatusTooManyRequests
    /\ cr_err[1].type = "RateLimitError"

\* The integer a header value stands for, 0 for a header that is missing
\* or does not parse.
HeaderInt(s) == IF s.kind = "int" THEN s.val ELSE 0

\* The UTC calendar date and clock <<year, month, day, hour, minute,
\* second>> of the time sec seconds after the Unix epoch.
CivilFromUnix(sec) ==
    LET z == (sec \div 86400) + 719468
        era == z \div 146097
        doe == z - era * 146097
        yoe == (doe - doe \div 1460 + doe \div 36524 - doe \div 146096) \div 365
        doy == doe - (365 * yoe + yoe \div 4 - yoe \div 100)
        mp == (5 * doy + 2) \div 153
        d == doy - (153 * mp + 2) \div 5 + 1
        m == IF mp < 10 THEN mp + 3 ELSE mp - 9
        y == yoe + era * 400 + (IF m <= 2 THEN 1 ELSE 0)
        s == sec % 86400
    IN  <<y, m, d, s \div 3600, (s % 3600) \div 60, s % 60>>

\* C11: on a 429 response the RateLimitError carries the Rate of the
\* headers: limit and remaining are the integers of X-RateLimit-Limit and
\* X-RateLimit-Remaining, reset is the time of the epoch seconds of
\* X-RateLimit-Reset (1700000000 is 2023-11-14T22:13:20Z), and a header that
\* is missing or does not parse leaves its field at the zero value.
C11_RateFromHeaders ==
    (cr_err /= <<>> /\ cr_resp.status = StatusTooManyRequests) =>
        LET e == cr_err[1]
            h == cr_resp.header
        IN  /\ e.type = "RateLimitError"
            /\ e.Rate.Limit = HeaderInt(h.limit)
            /\ e.Rate.Remaining = HeaderInt(h.remaining)
            /\ e.Rate.Reset = IF h.reset.kind = "int"
                              THEN Unix(h.reset.val)
                              ELSE ZeroTime
            /\ (h.reset.kind = "int" /\ h.reset.val = 1700000000) =>
                   CivilFromUnix(e.Rate.Reset.sec) = <<2023, 11, 14, 22, 13, 20>>

\* The message the body of the response supplied, "" if none.
BodyMessage(b) == IF b.valid THEN b.error ELSE ""

\* The message a status gets by itself.
MessageByStatus(status) ==
    CASE status = StatusUnauthorized -> MsgUnauthorized
      [] status = StatusForbidden -> MsgForbidden
      [] status = StatusNotFound -> MsgNotFound
      [] status = StatusUnprocessableEntity -> MsgUnprocessable
      [] OTHER -> MsgUnexpected(status)

\* CheckResponse has returned an ErrorResponse.
ClassifiedErrorResponse ==
    /\ cr_err /= <<>>
    /\ cr_err[1].type = "ErrorResponse"

\* C12: for a response that is neither 2xx nor 429 the message is assigned
\* by status: 401, 403 and 404 get their fixed message whatever the body
\* carried, 422 keeps the message of the body when there is one and gets
\* the fixed validation message otherwise, and every other status gets the
\* generic unexpected-status message.
C12_MessageByStatus ==
    ClassifiedErrorResponse =>
        LET c == cr_resp.status
            m == BodyMessage(cr_resp.body)
        IN  cr_err[1].Message =
                IF c = StatusUnprocessableEntity /\ m /= ""
                THEN m
                ELSE MessageByStatus(c)

\* C12 as amended: 401, 403 and 404 get their fixed message whatever the
\* body carried; every other status, 422 included, keeps the message of the
\* body when there is one and otherwise gets the message of the status: the
\* fixed validation message for 422, the generic one for the rest.
C12_MessageByStatusAmended ==
    ClassifiedErrorResponse =>
        LET c == cr_resp.status
            m == BodyMessage(cr_resp.body)
            fixed == {StatusUnauthorized, StatusForbidden, StatusNotFound}
        IN  cr_err[1].Message =
                IF c \notin fixed /\ m /= "" THEN m ELSE MessageByStatus(c)

\* A 500 whose body says "invalid" has kept the message of the body.
C12_Witness ==
    /\ ClassifiedErrorResponse
    /\ cr_resp.status = 500
    /\ cr_resp.body.valid
    /\ cr_resp.body.error = "invalid"
    /\ cr_err[1].Message = "invalid"

\* C13: a failure response whose body is missing, empty or not valid JSON
\* is still classified: CheckResponse returns an ErrorResponse with an
\* empty envelope whose message is that of the status alone.
C13_MalformedBodyTolerated ==
    (/\ cr_err /= <<>>
     /\ cr_resp.body \in InvalidBodies
     /\ ~(200 <= cr_resp.status /\ cr_resp.status <= 299)
     /\ cr_resp.status /= StatusTooManyRequests) =>
        /\ cr_err[1].type = "ErrorResponse"
        /\ cr_err[1].Errors = <<>>
        /\ cr_err[1].Response = cr_resp
        /\ cr_err[1].Message = MessageByStatus(cr_resp.status)

\* A 500 response whose body is not JSON has been classified with the
\* generic message.
C13_Witness ==
    /\ ClassifiedErrorResponse
    /\ cr_resp.body.raw = "garbage"
    /\ cr_resp.status = 500
    /\ cr_err[1].Message = "Unexpected status code: 500"

\* The "field: message" entries of the envelope of body b, in its order.
EnvelopeEntries(b) ==
    IF b.valid
    THEN [i \in 1..Len(b.error_description) |->
             b.error_description[i].Field \o ": "
             \o b.error_description[i].Message]
    ELSE <<>>

\* C14: the rendered form of every error of the classifier holds the method
\* and the URL of the request and the status of the response; that of an
\* ErrorResponse with sub-errors also holds one "field: message" entry per
\* sub-error, in the order of the envelope.
C14_RenderedForm ==
    cr_text /= <<>> =>
        /\ cr_text[1].method = cr_resp.request.method
        /\ cr_text[1].url = cr_resp.request.url
        /\ cr_text[1].status = cr_resp.status
        /\ cr_err[1].type = "ErrorResponse" =>
               cr_text[1].lines = EnvelopeEntries(cr_resp.body)

\* The error of a 422 with two sub-errors has been rendered.
C14_Witness ==
    /\ cr_text /= <<>>
    /\ cr_resp.status = StatusUnprocessableEntity
    /\ cr_resp.request.method = "POST"
    /\ cr_text[1].method = "POST"
    /\ cr_text[1].lines = <<"name: required", "email: taken">>

\* A single call returns in this step with the response r.
CallReturns ==
    /\ kind \in CallKinds
    /\ pc = "await"
    /\ pc' = "done"

ResourceKinds == {"Get", "Create", "Update"}

\* C15: on a 2xx response other than 204 and with a target, Do decodes the
\* body into the target, and a decode failure is the error of the call, Get,
\* Create and Update returning a nil resource with it; on a 204 or with a
\* nil target nothing is decoded and there is no error.
C15_DecodeOrFail ==
    [][ (/\ CallReturns
         /\ ~lastResp'[1].terr
         /\ 200 <= lastResp'[1].status
         /\ lastResp'[1].status <= 299) =>
            LET r == lastResp'[1]
            IN  IF target.type /= "nil" /\ r.status /= 204
                THEN IF r.body.valid
                     THEN /\ ret'[1].err = NoError
                          /\ target'.val = Decode(target.type, r.body)
                          /\ kind \in ResourceKinds =>
                                 ret'[1].result = << r.body.resource >>
                     ELSE /\ ret'[1].err = [type |-> "decode"]
                          /\ kind \in ResourceKinds => ret'[1].result = <<>>
                ELSE /\ ret'[1].err = NoError
                     /\ target' = target ]_vars

\* Get has returned a nil resource and the decode error of a 200 whose
\* body is not JSON.
C15_Witness ==
    /\ pc = "done"
    /\ lastResp /= <<>>
    /\ kind = "Get"
    /\ lastResp[1].status = 200
    /\ ~lastResp[1].body.valid
    /\ ret[1] = [result |-> <<>>, err |-> [type |-> "decode"]]

\* C16: on a response outside 2xx Do returns the error of the classifier
\* and leaves the target as it was; Get, Create, Update and ListPage return
\* a nil result with the error.
C16_ClassifierErrorNoDecode ==
    [][ (/\ CallReturns
         /\ ~lastResp'[1].terr
         /\ ~(200 <= lastResp'[1].status /\ lastResp'[1].status <= 299)) =>
            /\ ret'[1].err /= NoError
            /\ ret'[1].err = CheckResponse(Response(inflight[1], lastResp'[1]))
            /\ target' = target
            /\ kind \in ResourceKinds \cup {"ListPage"} =>
                   ret'[1].result = <<>> ]_vars

\* Do, called with a target that holds a value, has returned the error of
\* a 404 whose body is a JSON document, and the target still holds the value.
C16_Witness ==
    /\ pc = "done"
    /\ lastResp /= <<>>
    /\ kind = "Do"
    /\ lastResp[1].status = StatusNotFound
    /\ lastResp[1].body.valid
    /\ ret[1].err.type = "ErrorResponse"
    /\ target.val = [id |-> 9, name |-> "old"]

\* C17: when the HTTP call fails, Do returns the error of the context if
\* the context is done and the error of the HTTP client if it is live.
C17_CancellationSurfaced ==
    [][ (CallReturns /\ lastResp'[1].terr) =>
            ret'[1].err = IF ctx = "live"
                          THEN [type |-> "transport"]
                          ELSE [type |-> "context", Err |-> ctx] ]_vars

\* A request was put on the wire, the context was cancelled, the HTTP call
\* failed and the call returned the cancellation error.
C17_Witness ==
    /\ pc = "done"
    /\ lastResp /= <<>>
    /\ kind \in CallKinds
    /\ wire = <<TRUE>>
    /\ ctx = "canceled"
    /\ lastResp[1].terr
    /\ ret[1].err = [type |-> "context", Err |-> "canceled"]

\* A request is handed to the HTTP client in this step and is put on the
\* wire.
PutsOnWire == Len(wire') > Len(wire) /\ wire'[Len(wire')]

\* An eager listing returns in this step.
ListingReturns == kind \in EagerKinds /\ pc = "await" /\ pc' = "done"

\* C18: once the context is cancelled during an eager traversal no page
\* request is sent, and the traversal returns the outcome of the request
\* that was in flight when the context was cancelled.
C18_CancelledTraversal ==
    [][ (kind' \in EagerKinds /\ ctx /= "live") =>
            /\ ~PutsOnWire
            /\ (ListingReturns /\ \E i \in 1..Len(wire) : wire[i]) =>
                   /\ wire[Len(wire)]
                   /\ ret'[1].err =
                          Do(ctx, inflight[1], lastResp'[1],
                             Target("Paginated")).err ]_vars

\* C18 as amended: once the context is cancelled no page request is put on
\* the wire.  If the request in flight fails or brings the last page, its
\* outcome is what the traversal returns; if it brings a page with a further
\* page, the next request is failed by the HTTP client without being sent
\* and the traversal returns the error of the context and no items.
C18_CancelledTraversalAmended ==
    [][ (kind' \in EagerKinds /\ ctx /= "live") =>
            /\ ~PutsOnWire
            /\ (pc = "await" /\ ~wire[Len(wire)]) => pc' = "done"
            /\ ListingReturns =>
                   IF wire[Len(wire)]
                   THEN ret'[1].err =
                            Do(ctx, inflight[1], lastResp'[1],
                               Target("Paginated")).err
                   ELSE ret'[1] = [items |-> <<>>,
                                   err |-> [type |-> "context", Err |-> ctx]]
      ]_vars

\* The context was cancelled while the first page was in flight; the page
\* arrived with a further page, the second request was not put on the wire
\* and the listing returned the cancellation error.
C18_Witness ==
    /\ pc = "done"
    /\ kind \in EagerKinds
    /\ ctx = "canceled"
    /\ wire = <<TRUE, FALSE>>
    /\ npages = 1
    /\ ret[1] = [items |-> <<>>, err |-> [type |-> "context", Err |-> "canceled"]]

AwaitStates == {"await", "await_first", "await_next"}

\* C20: once a request of a traversal fails (transport error, 429, another
\* status outside 2xx, decode failure) the call returns that error to its
\* caller and issues no further request: neither the failed page again nor
\* a later page.
C20_NoRetry ==
    [][ (/\ pc \in AwaitStates
         /\ lastResp' /= <<>>
         /\ Do(ctx, inflight[1], lastResp'[1], Target("Paginated")).err
                /= NoError) =>
            LET err == Do(ctx, inflight[1], lastResp'[1],
                          Target("Paginated")).err
            IN  /\ requests' = requests
                /\ inflight' = <<>>
                /\ IF kind \in EagerKinds
                   THEN pc' = "done" /\ ret'[1].err = err
                   ELSE pc' = "ready"
                        /\ lastNext'[1] = [item |-> <<>>, err |-> err] ]_vars

\* The second page of a listing was answered with 429 and the listing has
\* returned the RateLimitError after two requests.
C20_Witness ==
    /\ pc = "done"
    /\ kind \in EagerKinds
    /\ Len(requests) = 2
    /\ lastResp[1].status = StatusTooManyRequests
    /\ ret[1].err.type = "RateLimitError"

\* The method a single call of kind k sends.
MethodOf(k) ==
    CASE k = "Create" -> "POST"
      [] k = "Update" -> "PATCH"
      [] k = "Delete" -> "DELETE"
      [] OTHER -> "GET"

\* C19: a single call issues exactly one request and returns only after its
\* outcome: Get, ListPage and ListPageFromURL a GET without body, Create a
\* POST and Update a PATCH with the body passed (nil allowed), Delete a
\* DELETE without body; Delete returns an error and no data.
C19_OneRequestPerCall ==
    (kind \in CallKinds \ {"Do"}) =>
        /\ Len(requests) = 1
        /\ requests[1].method = MethodOf(kind)
        /\ requests[1].body = IF kind \in {"Create", "Update"}
                              THEN bodyIn
                              ELSE <<>>
        /\ (ret = <<>>) <=> (pc = "await")
        /\ (lastResp = <<>>) <=> (pc = "await")
        /\ (pc = "done" /\ kind = "Delete") => DOMAIN ret[1] = {"err"}

\* The errors of a request that could not be built.
BuildErrors == { [type |-> "url"], [type |-> "encode"] }

\* C19 as amended: a single call hands at most one request to the HTTP
\* client: none when the request cannot be built, the call then returning
\* that error at once, and otherwise exactly one, the call returning only
\* after its outcome; methods, bodies and the return of Delete as in C19.
C19_AtMostOneRequest ==
    (kind \in CallKinds \ {"Do"}) =>
        /\ Len(requests) <= 1
        /\ Len(requests) = 0 =>
              /\ pc = "done"
              /\ ret[1].err \in BuildErrors
              /\ lastResp = <<>>
        /\ Len(requests) = 1 =>
              /\ requests[1].method = MethodOf(kind)
              /\ requests[1].body = IF kind \in {"Create", "Update"}
                                    THEN bodyIn
                                    ELSE <<>>
              /\ (ret = <<>>) <=> (pc = "await")
              /\ (lastResp = <<>>) <=> (pc = "await")
              /\ pc = "done" => ret[1].err \notin BuildErrors
        /\ (pc = "done" /\ kind = "Delete") => DOMAIN ret[1] = {"err"}

\* Update was called with a nil body and has returned after one PATCH.
C19_Witness ==
    /\ pc = "done"
    /\ kind = "Update"
    /\ bodyIn = <<>>
    /\ requests = << UpdateRequest(ResourcePath, <<>>) >>
    /\ requests[1].method = "PATCH"
    /\ ret /= <<>>

\* C21: every request the client issued carries "Bearer " followed by the
\* client's access token as Authorization, the client's account identifier,
\* its user agent and Accept: application/json; it has a body and the JSON
\* Content-Type exactly when the caller supplied a non-nil body (Create and
\* Update pass theirs on, every other call supplies none); a request built
\* from a next-link is no exception.
C21_RequiredHeaders ==
    \A i \in 1..Len(requests) :
        LET q == requests[i]
            supplied == IF kind \in {"Create", "Update"} THEN bodyIn ELSE <<>>
        IN  /\ q.header.Authorization = "Bearer " \o client.accessToken
            /\ q.header.HarvestAccountId = client.accountID
            /\ q.header.UserAgent = client.userAgent
            /\ q.header.Accept = "application/json"
            /\ (q.body /= <<>>) <=> (supplied /= <<>>)
            /\ (q.header.ContentType = "application/json") <=> (supplied /= <<>>)
            /\ q.header.ContentType \in {"", "application/json"}

\* A client holding the second token and account has sent a Create request
\* with a body.
C21_Witness ==
    /\ kind = "Create"
    /\ bodyIn /= <<>>
    /\ Len(requests) = 1
    /\ client.accessToken = "token-b"
    /\ client.accountID = "1002"
    /\ requests[1].header.Authorization = "Bearer token-b"

\* The options a caller supplied: the zero options for a nil pointer.
Supplied == IF optsIn = <<>> THEN ZeroOptions ELSE optsIn[1]

C24_SingleMode ==
    kind \in EagerKinds =>
        ~(\E i, j \in 1..Len(steps) : steps[i] = "link" /\ steps[j] = "page")

\* C24, amended: every follow-up request of an eager traversal is made in
\* the one mode the page just fetched selects: a page-number service
\* listing advances the page number; List and the cursor listings follow
\* the next-link if that page carries one and advance the page number
\* otherwise.
C24_ModePerPage ==
    [][ (kind \in EagerKinds /\ pc = "await" /\ pc' = "await"
                             /\ requests' /= requests) =>
          /\ Len(steps') = Len(steps) + 1
          /\ Last(steps') = IF kind /= "PageList" /\ LinkPresent(result'[1])
                            THEN "link"
                            ELSE "page"
          /\ Last(steps') = "link" =>
                /\ opts' = opts
                /\ QueryValues(inflight'[1].url.query, "page") = {}
          /\ Last(steps') = "page" =>
                /\ opts'.Page = result'[1].NextPage[1]
                /\ QueryValues(inflight'[1].url.query, "page")
                      = { result'[1].NextPage[1] } ]_vars

\* A cursor listing followed the link of its first page and then, the second
\* page carrying a NextPage and no link, advanced the page number.
C24_Witness ==
    /\ kind = "CursorList"
    /\ steps = <<"first", "link", "page">>
    /\ pc = "await"
    /\ ~LinkPresent(result[1])

\* The traversal has ended: an eager listing has returned, the iterator has
\* signalled the end of the sequence.
TraversalEnded ==
    \/ kind \in EagerKinds /\ pc = "done"
    \/ kind = "Iterator" /\ pc = "ready" /\ lastNext = EndSignal

\* C25: when a traversal that was passed an options object ends, every
\* field of that object other than the page number has the value it had
\* when the caller passed it in.  (A non-nil pointer is used as it is, so
\* the object the traversal works on is the caller's.)
C25_OnlyPageMutated ==
    (TraversalEnded /\ optsIn /= <<>>) =>
        [opts EXCEPT !.Page = 0] = [optsIn[1] EXCEPT !.Page = 0]

\* C26: once NewIterator has returned, an unset page number is 1 and an
\* unset per-page size is DefaultPerPage, the value the eager List fills
\* in, and the iterator's first request carries these values.
C26_IteratorDefaults ==
    kind = "Iterator" =>
        /\ requests = <<>> =>
              /\ opts.Page = IF Supplied.Page = 0 THEN 1 ELSE Supplied.Page
              /\ opts.PerPage = IF Supplied.PerPage = 0 THEN DefaultPerPage
                                                        ELSE Supplied.PerPage
              /\ opts = NormalizeListOptions(optsIn)
        /\ requests /= <<>> =>
              requests[1].url.query
                 = EncodeValues(NormalizeListOptions(optsIn))

\* C27: every request issued, a follow-up built from a server-supplied
\* next-link included, goes to the host of the client's base URL.
C27_FixedHost ==
    \A i \in 1..Len(requests) : requests[i].url.host = client.baseURL.host

\* C29: once Iterator.Next has returned the end-of-sequence signal, no step
\* of the iterator issues a request or yields an item, and the signal stays
\* the last return value.
C29_EndSignalFinal ==
    [][ (kind = "Iterator" /\ lastNext = EndSignal) =>
          /\ requests' = requests
          /\ yielded' = yielded
          /\ lastNext' = EndSignal ]_vars

\* The items of the iterator's current page that Next has not returned yet.
Unyielded ==
    IF current = <<>>
    THEN <<>>
    ELSE SubSeq(current[1].Items, index + 1, Len(current[1].Items))

\* C30: a Next call that returns the error of a page fetch leaves the
\* iterator's page, index and options as they were; the Next call after it
\* issues the failed request again, for the first page if none is loaded
\* and for the current page's NextPage otherwise; and whenever Next has
\* returned, the items yielded so far followed by the rest of the current
\* page are exactly the items of the pages fetched, in order: none left
\* out, none twice.
C30_RetryAfterError ==
    [][ kind = "Iterator" =>
          /\ (/\ pc \in {"await_first", "await_next"}
              /\ pc' = "ready"
              /\ lastNext'[1].err /= NoError) =>
                /\ current' = current
                /\ index' = index
                /\ opts' = opts
                /\ yielded' = yielded
          /\ (/\ pc = "ready"
              /\ lastNext /= <<>>
              /\ lastNext[1].err /= NoError
              /\ pc' /= pc) =>
                /\ requests' = Append(requests, Last(requests))
                /\ QueryValues(Last(requests').url.query, "page")
                      = IF current = <<>>
                        THEN { NormalizeIteratorOptions(optsIn).Page }
                        ELSE { current[1].NextPage[1] }
                /\ pc' = IF current = <<>> THEN "await_first" ELSE "await_next"
          /\ pc' = "ready" => served' = yielded' \o Unyielded' ]_vars

\* The fetch of the second page failed, Next was called again, the second
\* request was repeated and answered, and the first item of that page has
\* been yielded after the item of the first page.
C30_Witness ==
    /\ kind = "Iterator"
    /\ pc = "ready"
    /\ Len(requests) = 3
    /\ requests[3] = requests[2]
    /\ npages = 2
    /\ yielded = << <<1, 1>>, <<3, 1>> >>
    /\ lastNext = << [item |-> << <<3, 1>> >>, err |-> NoError] >>

\* The two listings on the client: the one running and the one suspended.
Listings == { ListingState } \cup { other[i] : i \in 1..Len(other) }

\* The listing l has returned: the eager call, or Iterator.All.
Returned(l) ==
    IF l.kind = "Iterator"
    THEN /\ l.pc = "ready"
         /\ l.lastNext /= <<>>
         /\ (l.lastNext[1].err /= NoError \/ l.lastNext[1].item = <<>>)
    ELSE l.pc = "done"

\* The return value of the listing l.
Outcome(l) ==
    IF l.kind = "Iterator" THEN All(l.yielded, l.lastNext[1]) ELSE l.ret[1]

\* The listing l run alone against the chain.
Alone(l) ==
    IF l.kind = "Iterator"
    THEN AllAlone(l.optsIn, chain)
    ELSE ListAlone(l.kind, l.optsIn, chain)

\* C22: of two listings interleaved on one client, each with its own
\* options object, each has at every moment issued requests the same
\* listing issues when it runs alone, in the same order, and returns with
\* the same requests issued, the same return value and the same options as
\* when it runs alone; and the client is as NewWithConfig built it.
C22_NoInterference ==
    /\ client = NewWithConfig("token-a", "1001", "app (dev@example.com)")
    /\ \A l \in Listings :
          l.kind /= "" =>
              /\ IsPrefix(l.requests, Alone(l).requests)
              /\ Returned(l) =>
                    /\ Alone(l).returned
                    /\ l.requests = Alone(l).requests
                    /\ Outcome(l) = Alone(l).ret
                    /\ l.opts = Alone(l).opts

\* A cursor listing, which followed the link of the first page, and
\* Iterator.All, which advanced the page number, have both returned the two
\* items of the chain.
C22_Witness ==
    /\ other /= <<>>
    /\ kind = "CursorList"
    /\ other[1].kind = "Iterator"
    /\ Returned(ListingState)
    /\ Returned(other[1])
    /\ steps = <<"first", "link">>
    /\ other[1].steps = <<"first", "page">>
    /\ ret[1] = [items |-> << <<1, 1>>, <<2, 1>> >>, err |-> NoError]
    /\ other[1].yielded = << <<1, 1>>, <<2, 1>> >>

\* The page numbers a listing requested, in order.
PageNumbers(reqs) == [i \in 1..Len(reqs) |-> RequestedPage(reqs[i])]

\* C28: when Iterator.All and the eager page-number listing, called with
\* the same options, have both returned over one chain, they have requested
\* the same page numbers in the same order and return the same items.
C28_AllEqualsList ==
    \A a, b \in Listings :
        (/\ a.kind = "Iterator"
         /\ b.kind = "PageList"
         /\ a.optsIn = b.optsIn
         /\ Returned(a)
         /\ Returned(b)) =>
            /\ PageNumbers(a.requests) = PageNumbers(b.requests)
            /\ Outcome(a).items = Outcome(b).items

====
